---- MODULE Spec2Model ----
(***************************************************************************)
(* Model of bot/input/slack/slack.go: the slackInput adapter.              *)
(*                                                                         *)
(* Strings are sequences of one-character strings, so that                 *)
(* strings.HasPrefix, strings.Split and fmt.Sprintf are computed as the    *)
(* code computes them.  Channels made by make(chan bool) are numbered in   *)
(* creation order; the k-th successful Start() makes channel k and         *)
(* launches run loop k.                                                    *)
(***************************************************************************)
EXTENDS Integers, Sequences, FiniteSets, TLC

\* ------------------------------------------------------------------ bounds

\* Successful Start() calls (each makes one exit channel and one run loop).
MaxLoops == 2
\* Successful Connect() calls (each makes one handle and one listener task).
MaxConns == 1

\* Events a session's rtm.IncomingEvents holds before the run loop receives them.
MaxIncoming == 2

Loops == 1..MaxLoops
Conns == 1..MaxConns

\* ----------------------------------------------------------------- strings

s_empty == <<>>
s_bot == <<"b", "o", "t">>
s_UBOT == <<"U", "B", "O", "T">>
s_U123 == <<"U", "1", "2", "3">>
s_alice == <<"a", "l", "i", "c", "e">>
s_C999 == <<"C", "9", "9", "9">>
s_D001 == <<"D", "0", "0", "1">>
s_deploy == <<"d", "e", "p", "l", "o", "y">>
s_hello == <<"h", "e", "l", "l", "o">>
s_ok == <<"o", "k">>
s_boom == <<"b", "o", "o", "m">>
s_hi == <<"h", "i">>
s_message == <<"m", "e", "s", "s", "a", "g", "e">>
s_xoxb == <<"x", "o", "x", "b">>
s_sp == <<" ">>
s_botty == <<"b", "o", "t", "t", "y">>
s_atbot == <<"@", "b", "o", "t">>
s_staging == <<"s", "t", "a", "g", "i", "n", "g">>

\* strings.HasPrefix(s, prefix)
HasPrefix(s, prefix) ==
    /\ Len(s) >= Len(prefix)
    /\ SubSeq(s, 1, Len(prefix)) = prefix

\* strings.Split(s, " "): cut at every single space; "" gives one empty string.
RECURSIVE Split(_)
Split(s) ==
    IF \A i \in 1..Len(s) : s[i] # " "
    THEN <<s>>
    ELSE LET i == CHOOSE j \in 1..Len(s) :
                      /\ s[j] = " "
                      /\ \A k \in 1..(j - 1) : s[k] # " "
         IN <<SubSeq(s, 1, i - 1)>> \o Split(SubSeq(s, i + 1, Len(s)))

\* xs[1:]
From1(xs) == SubSeq(xs, 2, Len(xs))

\* fmt.Sprintf("<@%s>", id)
Mention(id) == <<"<", "@">> \o id \o <<">">>

\* fmt.Sprintf("@%s: error executing command: %v", name, err)
\* (ErrorTextNoSender: the same with format "error executing command: %v".)
s_errmid ==
    <<":", " ", "e", "r", "r", "o", "r", " ", "e", "x", "e", "c", "u", "t", "i", "n", "g",
      " ", "c", "o", "m", "m", "a", "n", "d", ":", " ">>
ErrorTextNoSender(name, err) == SubSeq(s_errmid, 3, Len(s_errmid)) \o err
ErrorText(name, err) == <<"@">> \o name \o s_errmid \o err

\* fmt.Sprintf("@%s: %s", name, string(rsp))
PrefixedText(name, rsp) == <<"@">> \o name \o <<":", " ">> \o rsp

\* ------------------------------------------------- the remote service's data

\* The answer of AuthTest(): the adapter's display handle and its user ID.
auth == [User |-> s_bot, UserID |-> s_UBOT]

\* What GetUsers() may answer: an error, or a user list.
GetUsersResults ==
    { [err |-> TRUE, users |-> {}],
      [err |-> FALSE, users |-> {[ID |-> s_U123, Name |-> s_alice]}] }

\* The flags a cli.Context may carry: slack_token unset or set, slack_debug set
\* (debug is FALSE until Init stores it).
Tokens == {s_empty, s_xoxb}
DebugFlags == {TRUE}

\* Inbound events of rtm.IncomingEvents.
Msg(type, user, channel, text) ==
    [kind |-> "MessageEvent", Type |-> type, User |-> user, Channel |-> channel,
     Text |-> text]
NoEvent ==
    [kind |-> "none", Type |-> s_empty, User |-> s_empty, Channel |-> s_empty,
     Text |-> s_empty]
InvalidAuthEvent == [NoEvent EXCEPT !.kind = "InvalidAuthEvent"]
OtherEvent == [NoEvent EXCEPT !.kind = "HelloEvent"]

Events ==
    { InvalidAuthEvent,
      OtherEvent,
      \* a user addresses the adapter by its handle in a shared channel
      Msg(s_message, s_U123, s_C999, s_bot \o s_sp \o s_deploy),
      \* the adapter's own user ID as sender, in a direct channel
      Msg(s_message, s_UBOT, s_D001, s_deploy),
      \* a sender identifier that equals the adapter's display handle
      Msg(s_message, s_bot, s_D001, s_deploy),
      \* not addressed to the adapter
      Msg(s_message, s_U123, s_C999, s_hi),
      \* only the mention: no arguments are left
      Msg(s_message, s_U123, s_C999, Mention(s_UBOT)),
      \* not a message, and an empty text
      Msg(s_hello, s_U123, s_D001, s_deploy),
      Msg(s_message, s_U123, s_D001, s_empty) }

\* Message texts: addressed by handle, by mention, by a word that starts with the
\* handle, by "@" and the handle, not addressed, with a further argument, with two
\* spaces after the handle, and the handle alone.
Texts ==
    { s_bot \o s_sp \o s_deploy,
      Mention(s_UBOT) \o s_sp \o s_deploy,
      s_botty \o s_sp \o s_deploy,
      s_atbot \o s_sp \o s_deploy \o s_sp \o s_staging,
      s_deploy,
      s_deploy \o s_sp \o s_staging,
      s_bot \o s_sp \o s_sp \o s_deploy,
      s_bot }

\* Message events of a known user in a shared and in a direct channel.
Messages == {Msg(s_message, s_U123, c, t) : c \in {s_C999, s_D001}, t \in Texts}

\* The events that arrive while the run loop is busy: two that are dispatched, one
\* that is dropped, and the one that ends the loop.
Backlog ==
    { InvalidAuthEvent,
      Msg(s_message, s_U123, s_C999, s_bot \o s_sp \o s_deploy),
      Msg(s_message, s_UBOT, s_D001, s_deploy),
      Msg(s_message, s_U123, s_C999, s_hi) }

\* Command handlers a host may register: two share the name "deploy".
Handlers == {"h1", "h2", "h3"}
Name(h) == IF h = "h3" THEN s_hello ELSE s_deploy

\* What cmd.Exec(args...) may return: (output, nil) or (nil, error).
NoErr == "nil"
ExecResults == {[rsp |-> s_ok, err |-> NoErr], [rsp |-> s_empty, err |-> s_boom]}

\* -------------------------------------------------------------------- state

VARIABLES
    token,      \* slackInput.token
    debug,      \* slackInput.debug
    mu,         \* slackInput.Mutex: "free", or the call that holds it in AuthTest
    running,    \* slackInput.running
    exit,       \* slackInput.exit: 0 is nil, k > 0 the k-th channel made by Start
    closed,     \* the Start-made channels that are closed
    api,        \* slackInput.api: <<>> is nil, else <<token, debug>> of the client
    cmds,       \* slackInput.cmds: the map, as a set of <<name, handler>> entries
    ctxW,       \* slackInput.ctx: the Process call waiting for / holding the write lock
    ctxR,       \* slackInput.ctx: the run loops holding the read lock
    pc,         \* run loop l: where it is in run()
    sel,        \* run loop l: the value of p.exit its select waits on
    names,      \* run loop l: the names map, as a set of <<ID, name>> entries
    cur,        \* run loop l: the event being processed, with its args and name
    out,        \* run loop l: the outgoing message handed to rtm.SendMessage
    rtm,        \* run loop l: its RTM session is connected
    incoming,   \* run loop l: the events buffered in rtm.IncomingEvents, oldest first
    cpc,        \* handle k: where its listener goroutine is
    csel,       \* handle k: the value of p.exit the listener's select waits on
    cexit,      \* handle k: its own exit channel, "open" or "closed"
    crtm,       \* handle k: its RTM session is connected
    closing,    \* handle k: a Close() call saw exit open and is about to close it
    ret,        \* the last return of a public method: [op, line, err]
    panic       \* the runtime panic that ended the process, if any: [by, what]

vars ==
    <<token, debug, mu, running, exit, closed, api, cmds, ctxW, ctxR, pc, sel, names,
      cur, out, rtm, incoming, cpc, csel, cexit, crtm, closing, ret, panic>>

adapterVars == <<token, debug, mu, running, exit, closed, api>>
registryVars == <<cmds, ctxW, ctxR>>
loopVars == <<pc, sel, names, cur, out, rtm, incoming>>
connVars == <<cpc, csel, cexit, crtm, closing>>

NoHandler == "none"
NoCur == [ev |-> NoEvent, args |-> <<>>, name |-> s_empty, cmd |-> NoHandler]
NoOut == [text |-> s_empty, channel |-> s_empty]
NoPanic == [by |-> "none", what |-> "none"]
\* A runtime panic ends the process: every step is taken with no panic raised.
Alive == panic = NoPanic
Ret(op, line, err) == [op |-> op, line |-> line, err |-> err]

\* A Go map as the set of its <<key, value>> entries: m[k], _, ok := m[k], m[k] = v.
Has(m, k) == \E e \in m : e[1] = k
Get(m, k, zero) == IF Has(m, k) THEN (CHOOSE e \in m : e[1] = k)[2] ELSE zero
Put(m, k, v) == {e \in m : e[1] # k} \cup {<<k, v>>}

\* NewInput(): the zero slackInput with an empty cmds map.
NewInput ==
    /\ token = s_empty
    /\ debug = FALSE
    /\ mu = "free"
    /\ running = FALSE
    /\ exit = 0
    /\ closed = {}
    /\ api = <<>>
    /\ cmds = {}
    /\ ctxW = NoHandler
    /\ ctxR = {}
    /\ pc = [l \in Loops |-> "none"]
    /\ sel = [l \in Loops |-> 0]
    /\ names = [l \in Loops |-> {}]
    /\ cur = [l \in Loops |-> NoCur]
    /\ out = [l \in Loops |-> NoOut]
    /\ rtm = [l \in Loops |-> FALSE]
    /\ incoming = [l \in Loops |-> <<>>]
    /\ cpc = [k \in Conns |-> "none"]
    /\ csel = [k \in Conns |-> 0]
    /\ cexit = [k \in Conns |-> "none"]
    /\ crtm = [k \in Conns |-> FALSE]
    /\ closing = [k \in Conns |-> FALSE]
    /\ ret = Ret("NewInput", 273, NoErr)
    /\ panic = NoPanic

\* ------------------------------------------------------------ AdapterLifecycle

\* Init(ctx): store the flags, unless the token is missing.
Init(d, t) ==
    /\ Alive
    /\ IF Len(t) = 0
       THEN /\ ret' = Ret("Init", 165, "missing slack token")
            /\ UNCHANGED <<token, debug>>
       ELSE /\ debug' = d
            /\ token' = t
            /\ ret' = Ret("Init", 171, NoErr)
    /\ UNCHANGED <<mu, running, exit, closed, api, registryVars, loopVars, connVars, panic>>

\* Start() without its "if p.running { return nil }".
StartNoRunningCheck ==
    /\ Alive
    /\ IF Len(token) = 0
       THEN /\ ret' = Ret("Start", 229, "missing slack token")
            /\ UNCHANGED <<adapterVars, registryVars, loopVars, connVars, panic>>
       ELSE /\ mu = "free"
            /\ mu' = "Start"
            /\ UNCHANGED <<token, debug, running, exit, closed, api, registryVars, loopVars,
                           connVars, ret, panic>>

\* Start(), to the AuthTest call: the token check, Lock, the running check.
\* A call that finds the mutex held waits (is not enabled).
Start ==
    /\ Alive
    /\ IF Len(token) = 0
       THEN /\ ret' = Ret("Start", 229, "missing slack token")
            /\ UNCHANGED <<adapterVars, registryVars, loopVars, connVars, panic>>
       ELSE /\ mu = "free"
            /\ IF running
               THEN /\ ret' = Ret("Start", 236, NoErr)
                    /\ UNCHANGED mu
               ELSE /\ mu' = "Start"
                    /\ UNCHANGED ret
            /\ UNCHANGED <<token, debug, running, exit, closed, api, registryVars, loopVars,
                           connVars, panic>>

\* Start(), from the answer of api.AuthTest() to the return: on success set api,
\* make the exit channel, set running and launch run(auth); Unlock either way.
StartAuth(ok) ==
    /\ Alive
    /\ mu = "Start"
    /\ mu' = "free"
    /\ IF ok
       THEN /\ exit < MaxLoops
            /\ api' = <<token, debug>>
            /\ exit' = exit + 1
            /\ running' = TRUE
            /\ pc' = [pc EXCEPT ![exit + 1] = "names"]
            /\ sel' = [sel EXCEPT ![exit + 1] = exit + 1]
            /\ rtm' = [rtm EXCEPT ![exit + 1] = TRUE]
            /\ ret' = Ret("Start", 253, NoErr)
       ELSE /\ ret' = Ret("Start", 245, "auth error")
            /\ UNCHANGED <<api, exit, running, pc, sel, rtm>>
    /\ UNCHANGED <<token, debug, closed, registryVars, names, cur, out, incoming, connVars,
                   panic>>

\* close(ch) on a Start-made channel: a nil or closed channel panics.
CloseExit(who) ==
    IF exit = 0
    THEN /\ panic' = [by |-> who, what |-> "close of nil channel"]
         /\ UNCHANGED closed
    ELSE IF exit \in closed
    THEN /\ panic' = [by |-> who, what |-> "close of closed channel"]
         /\ UNCHANGED closed
    ELSE /\ closed' = closed \cup {exit}
         /\ UNCHANGED panic

\* Stop() without its "if !p.running { return nil }".
StopNoRunningCheck ==
    /\ Alive
    /\ mu = "free"
    /\ CloseExit("Stop")
    /\ running' = FALSE
    /\ ret' = Ret("Stop", 266, NoErr)
    /\ UNCHANGED <<token, debug, mu, exit, api, registryVars, loopVars, connVars>>

\* Stop() without its "p.running = false".
StopKeepsRunning ==
    /\ Alive
    /\ mu = "free"
    /\ IF ~running
       THEN /\ ret' = Ret("Stop", 261, NoErr)
            /\ UNCHANGED <<closed, panic>>
       ELSE /\ CloseExit("Stop")
            /\ ret' = Ret("Stop", 266, NoErr)
    /\ UNCHANGED <<token, debug, mu, running, exit, api, registryVars, loopVars, connVars>>

\* Stop(): under the mutex, close the exit channel of a running adapter.
Stop ==
    /\ Alive
    /\ mu = "free"
    /\ IF ~running
       THEN /\ ret' = Ret("Stop", 261, NoErr)
            /\ UNCHANGED <<running, closed, panic>>
       ELSE /\ CloseExit("Stop")
            /\ running' = FALSE
            /\ ret' = Ret("Stop", 266, NoErr)
    /\ UNCHANGED <<token, debug, mu, exit, api, registryVars, loopVars, connVars>>

\* Connect() without its "if !p.running { return nil, errors.New(...) }".
ConnectNoRunningCheck ==
    /\ Alive
    /\ mu = "free"
    /\ mu' = "Connect"
    /\ UNCHANGED <<token, debug, running, exit, closed, api, registryVars, loopVars,
                   connVars, ret, panic>>

\* Connect(), to the AuthTest call: Lock and the running check.
Connect ==
    /\ Alive
    /\ mu = "free"
    /\ IF ~running
       THEN /\ ret' = Ret("Connect", 179, "not running")
            /\ UNCHANGED mu
       ELSE /\ mu' = "Connect"
            /\ UNCHANGED ret
    /\ UNCHANGED <<token, debug, running, exit, closed, api, registryVars, loopVars,
                   connVars, panic>>

\* Connect(), from the answer of p.api.AuthTest() to the return: on success make the
\* handle's RTM session and exit channel and start the listener goroutine.
ConnectAuth(ok) ==
    /\ Alive
    /\ mu = "Connect"
    /\ mu' = "free"
    /\ IF ok
       THEN \E k \in Conns :
                /\ cpc[k] = "none"
                /\ \A j \in 1..(k - 1) : cpc[j] # "none"
                /\ cpc' = [cpc EXCEPT ![k] = "start"]
                /\ csel' = [csel EXCEPT ![k] = exit]
                /\ cexit' = [cexit EXCEPT ![k] = "open"]
                /\ crtm' = [crtm EXCEPT ![k] = TRUE]
                /\ ret' = Ret("Connect", 208, NoErr)
       ELSE /\ ret' = Ret("Connect", 185, "auth error")
            /\ UNCHANGED <<cpc, csel, cexit, crtm>>
    /\ UNCHANGED <<token, debug, running, exit, closed, api, registryVars, loopVars,
                   closing, panic>>

\* ------------------------------------------------------------- CommandRegistry

\* Process(cmd), the call and p.ctx.Lock(): the writer announces itself, which holds
\* back every later RLock, and then waits for the readers to leave.
ProcessLock(cmd) ==
    /\ Alive
    /\ ctxW = NoHandler
    /\ ctxW' = cmd
    /\ UNCHANGED <<adapterVars, cmds, ctxR, loopVars, connVars, ret, panic>>

\* Process(cmd) without its duplicate check: the insert replaces the entry.
ProcessNoDuplicateCheck ==
    /\ Alive
    /\ ctxW # NoHandler
    /\ ctxR = {}
    /\ cmds' = Put(cmds, Name(ctxW), ctxW)
    /\ ret' = Ret("Process", 224, NoErr)
    /\ ctxW' = NoHandler
    /\ UNCHANGED <<adapterVars, ctxR, loopVars, connVars, panic>>

\* Process(cmd), with the write lock: the duplicate check, the insert, Unlock.
Process ==
    /\ Alive
    /\ ctxW # NoHandler
    /\ ctxR = {}
    /\ IF Has(cmds, Name(ctxW))
       THEN /\ ret' = Ret("Process", 220, "Command with name already exists")
            /\ UNCHANGED cmds
       ELSE /\ cmds' = Put(cmds, Name(ctxW), ctxW)
            /\ ret' = Ret("Process", 224, NoErr)
    /\ ctxW' = NoHandler
    /\ UNCHANGED <<adapterVars, ctxR, loopVars, connVars, panic>>

\* ------------------------------------------------- EventClassifier: process()

\* "don't process self": the sender is compared with the identity's display handle.
IsSelf(ev, a) == ev.User = a.User

\* The text begins with the handle or with the structured mention.
Mentions(ev, a) ==
    \/ HasPrefix(ev.Text, a.User)
    \/ HasPrefix(ev.Text, Mention(a.UserID))

\* process() goes on to exec(): the three early returns and the first switch.
Accepts(ev, a) ==
    /\ ev.Type = s_message
    /\ Len(ev.Text) # 0
    /\ ~IsSelf(ev, a)
    /\ \/ HasPrefix(ev.Channel, <<"D">>)
       \/ Mentions(ev, a)

\* The second switch deciding by the channel instead of by the text: a direct
\* channel keeps every token, a shared one loses the first.
ArgsByChannel(ev, a) ==
    IF HasPrefix(ev.Channel, <<"D">>) THEN Split(ev.Text) ELSE From1(Split(ev.Text))

\* process(): the second switch, "setup the args".
Args(ev, a) ==
    IF Mentions(ev, a) THEN From1(Split(ev.Text)) ELSE Split(ev.Text)

\* ------------------------------------------------------- Dispatcher: exec()

\* The handlers of s.cmds whose Name() equals args[0].
Matches(args) ==
    IF Len(args) = 0 THEN {} ELSE {e[2] : e \in {x \in cmds : Name(x[2]) = args[1]}}

\* exec() with "&&" for "||" in the condition that drops the prefix.
ReplyTextAnd(ev, name, res) ==
    IF res.err # NoErr
    THEN ErrorText(name, res.err)
    ELSE IF Len(name) = 0 /\ HasPrefix(ev.Channel, <<"D">>)
    THEN res.rsp
    ELSE PrefixedText(name, res.rsp)

\* The text exec() sends for what cmd.Exec returned.
ReplyText(ev, name, res) ==
    IF res.err # NoErr
    THEN ErrorText(name, res.err)
    ELSE IF Len(name) = 0 \/ HasPrefix(ev.Channel, <<"D">>)
    THEN res.rsp
    ELSE PrefixedText(name, res.rsp)

\* ------------------------------------------------ ConnectionSupervisor: run()

\* fn(): the names map of a GetUsers() answer; an empty map when it failed.
fn(r) == IF r.err THEN {} ELSE {<<u.ID, u.Name>> : u \in r.users}

\* run() up to the loop: names := fn().
LoopNames(l, r) ==
    /\ Alive
    /\ pc[l] = "names"
    /\ names' = [names EXCEPT ![l] = fn(r)]
    /\ pc' = [pc EXCEPT ![l] = "top"]
    /\ UNCHANGED <<adapterVars, registryVars, sel, cur, out, rtm, incoming, connVars, ret,
                   panic>>

\* The select is entered: p.exit is read, without the mutex.  The read races with
\* the write of a later Start(): it yields the current channel or an earlier one,
\* never one older than this loop has already seen.
LoopSelect(l) ==
    /\ Alive
    /\ pc[l] = "top"
    /\ \E ch \in sel[l]..exit : sel' = [sel EXCEPT ![l] = ch]
    /\ pc' = [pc EXCEPT ![l] = "wait"]
    /\ UNCHANGED <<adapterVars, registryVars, names, cur, out, rtm, incoming, connVars, ret,
                   panic>>

\* case <-t.C: names = fn()
LoopTick(l, r) ==
    /\ Alive
    /\ pc[l] = "wait"
    /\ names' = [names EXCEPT ![l] = fn(r)]
    /\ pc' = [pc EXCEPT ![l] = "top"]
    /\ UNCHANGED <<adapterVars, registryVars, sel, cur, out, rtm, incoming, connVars, ret,
                   panic>>

\* run() returns: the deferred rtm.Disconnect() and t.Stop() run, and the
\* goroutine's locals, its session's event channel among them, are gone.
Return(l) ==
    /\ pc' = [pc EXCEPT ![l] = "done"]
    /\ rtm' = [rtm EXCEPT ![l] = FALSE]
    /\ sel' = [sel EXCEPT ![l] = 0]
    /\ names' = [names EXCEPT ![l] = {}]
    /\ incoming' = [incoming EXCEPT ![l] = <<>>]

\* case <-p.exit: return
LoopExit(l) ==
    /\ Alive
    /\ pc[l] = "wait"
    /\ sel[l] \in closed
    /\ Return(l)
    /\ UNCHANGED <<adapterVars, registryVars, cur, out, connVars, ret, panic>>

\* The session's connection manager (go rtm.ManageConnection()) delivers an event
\* of the remote service to rtm.IncomingEvents while no receiver takes it at once.
Arrive(l, e) ==
    /\ Alive
    /\ rtm[l]
    /\ Len(incoming[l]) < MaxIncoming
    /\ incoming' = [incoming EXCEPT ![l] = Append(incoming[l], e)]
    /\ UNCHANGED <<adapterVars, registryVars, pc, sel, names, cur, out, rtm, connVars, ret,
                   panic>>

\* A receive that takes the newest buffered event instead of the oldest.
ReceiveNewest(l, e) ==
    IF incoming[l] = <<>>
    THEN incoming' = incoming
    ELSE /\ e = incoming[l][Len(incoming[l])]
         /\ incoming' = [incoming EXCEPT ![l] = SubSeq(incoming[l], 1, Len(incoming[l]) - 1)]

\* The channel receive e := <-rtm.IncomingEvents: the oldest buffered event, or,
\* with none buffered, the event the session hands over as it arrives.
Receive(l, e) ==
    IF incoming[l] = <<>>
    THEN incoming' = incoming
    ELSE /\ e = Head(incoming[l])
         /\ incoming' = [incoming EXCEPT ![l] = Tail(incoming[l])]

\* case e := <-rtm.IncomingEvents: an invalid-auth event ends the loop, a message
\* event goes through process(), which calls exec() if it accepts the event.
LoopEvent(l, e) ==
    /\ Alive
    /\ pc[l] = "wait"
    /\ IF e.kind = "InvalidAuthEvent"
       THEN /\ incoming[l] # <<>> => e = Head(incoming[l])
            /\ Return(l)
            /\ UNCHANGED cur
       ELSE IF e.kind = "MessageEvent" /\ Accepts(e, auth)
       THEN /\ Receive(l, e)
            /\ pc' = [pc EXCEPT ![l] = "rlock"]
            /\ cur' = [cur EXCEPT ![l] = [ev |-> e, args |-> Args(e, auth),
                                          name |-> Get(names[l], e.User, s_empty),
                                          cmd |-> NoHandler]]
            /\ UNCHANGED <<rtm, sel, names>>
       ELSE /\ Receive(l, e)
            /\ pc' = [pc EXCEPT ![l] = "top"]
            /\ UNCHANGED <<cur, rtm, sel, names>>
    /\ UNCHANGED <<adapterVars, registryVars, out, connVars, ret, panic>>

\* exec(): s.ctx.RLock(), which waits while a writer holds or awaits the lock; with
\* no args or no handler of that name it returns (RUnlock), else it calls cmd.Exec.
LoopRLock(l) ==
    /\ Alive
    /\ pc[l] = "rlock"
    /\ ctxW = NoHandler
    /\ IF Matches(cur[l].args) = {}
       THEN /\ pc' = [pc EXCEPT ![l] = "top"]
            /\ cur' = [cur EXCEPT ![l] = NoCur]
            /\ UNCHANGED ctxR
       ELSE \E h \in Matches(cur[l].args) :
                /\ pc' = [pc EXCEPT ![l] = "exec"]
                /\ cur' = [cur EXCEPT ![l].cmd = h]
                /\ ctxR' = ctxR \cup {l}
    /\ UNCHANGED <<adapterVars, cmds, ctxW, sel, names, out, rtm, incoming, connVars, ret,
                   panic>>

\* cmd.Exec(args...) returns; exec() builds the reply and calls rtm.SendMessage.
LoopExec(l, res) ==
    /\ Alive
    /\ pc[l] = "exec"
    /\ out' = [out EXCEPT ![l] = [text |-> ReplyText(cur[l].ev, cur[l].name, res),
                                  channel |-> cur[l].ev.Channel]]
    /\ pc' = [pc EXCEPT ![l] = "send"]
    /\ UNCHANGED <<adapterVars, registryVars, sel, names, cur, rtm, incoming, connVars, ret,
                   panic>>

\* rtm.SendMessage returns; exec() returns (RUnlock) and the loop goes round.
LoopSend(l) ==
    /\ Alive
    /\ pc[l] = "send"
    /\ ctxR' = ctxR \ {l}
    /\ pc' = [pc EXCEPT ![l] = "top"]
    /\ cur' = [cur EXCEPT ![l] = NoCur]
    /\ out' = [out EXCEPT ![l] = NoOut]
    /\ UNCHANGED <<adapterVars, cmds, ctxW, sel, names, rtm, incoming, connVars, ret,
                   panic>>

\* ------------------------------------------- Connect(): the listener goroutine

\* The outer select is entered: p.exit is read, without the mutex.
ListenerSelect(k) ==
    /\ Alive
    /\ cpc[k] = "start"
    /\ \E ch \in csel[k]..exit : csel' = [csel EXCEPT ![k] = ch]
    /\ cpc' = [cpc EXCEPT ![k] = "wait"]
    /\ UNCHANGED <<adapterVars, registryVars, loopVars, cexit, crtm, closing, ret, panic>>

\* case <-p.exit: go on to the inner select.
ListenerExit(k) ==
    /\ Alive
    /\ cpc[k] = "wait"
    /\ csel[k] \in closed
    /\ cpc' = [cpc EXCEPT ![k] = "check"]
    /\ UNCHANGED <<adapterVars, registryVars, loopVars, csel, cexit, crtm, closing, ret, panic>>

\* case <-exit: (the outer one) go on to rtm.Disconnect().
ListenerOwnExit(k) ==
    /\ Alive
    /\ cpc[k] = "wait"
    /\ cexit[k] = "closed"
    /\ cpc' = [cpc EXCEPT ![k] = "disc"]
    /\ UNCHANGED <<adapterVars, registryVars, loopVars, csel, cexit, crtm, closing, ret, panic>>

\* The inner select: case <-exit: return; default: go on to close(exit).
ListenerCheck(k) ==
    /\ Alive
    /\ cpc[k] = "check"
    /\ cpc' = [cpc EXCEPT ![k] = IF cexit[k] = "closed" THEN "done" ELSE "close"]
    /\ UNCHANGED <<adapterVars, registryVars, loopVars, csel, cexit, crtm, closing, ret, panic>>

\* close(exit) on a handle's channel: a closed channel panics.
CloseHandle(k, who) ==
    IF cexit[k] = "closed"
    THEN /\ panic' = [by |-> who, what |-> "close of closed channel"]
         /\ UNCHANGED cexit
    ELSE /\ cexit' = [cexit EXCEPT ![k] = "closed"]
         /\ UNCHANGED panic

\* default: close(exit)
ListenerClose(k) ==
    /\ Alive
    /\ cpc[k] = "close"
    /\ CloseHandle(k, "listener")
    /\ cpc' = [cpc EXCEPT ![k] = "disc"]
    /\ UNCHANGED <<adapterVars, registryVars, loopVars, csel, crtm, closing, ret>>

\* rtm.Disconnect()
ListenerDisconnect(k) ==
    /\ Alive
    /\ cpc[k] = "disc"
    /\ crtm' = [crtm EXCEPT ![k] = FALSE]
    /\ cpc' = [cpc EXCEPT ![k] = "done"]
    /\ UNCHANGED <<adapterVars, registryVars, loopVars, csel, cexit, closing, ret, panic>>

\* The handle's own cancellation (slackConn.Close, not in slack.go): the closer
\* detects an already-closed exit channel and skips the close.  First the check.
ConnClose(k) ==
    /\ Alive
    /\ cexit[k] # "none"
    /\ ~closing[k]
    /\ IF cexit[k] = "closed"
       THEN /\ ret' = Ret("Close", 0, NoErr)
            /\ UNCHANGED closing
       ELSE /\ closing' = [closing EXCEPT ![k] = TRUE]
            /\ UNCHANGED ret
    /\ UNCHANGED <<adapterVars, registryVars, loopVars, cpc, csel, cexit, crtm, panic>>

\* Then the close.
ConnCloseDo(k) ==
    /\ Alive
    /\ closing[k]
    /\ CloseHandle(k, "Close")
    /\ closing' = [closing EXCEPT ![k] = FALSE]
    /\ ret' = Ret("Close", 0, NoErr)
    /\ UNCHANGED <<adapterVars, registryVars, loopVars, cpc, csel, crtm>>

\* --------------------------------------------------------------- specifications

\* The lifecycle calls of the hosting framework.
Lifecycle ==
    \/ \E d \in DebugFlags, t \in Tokens : Init(d, t)
    \/ Start
    \/ \E ok \in BOOLEAN : StartAuth(ok)
    \/ Stop

\* The steps of the run loops up to exec()'s lookup.
Supervisor ==
    \/ \E l \in Loops, r \in GetUsersResults : LoopNames(l, r)
    \/ \E l \in Loops : LoopSelect(l)
    \/ \E l \in Loops, r \in GetUsersResults : LoopTick(l, r)
    \/ \E l \in Loops, e \in Events : LoopEvent(l, e)
    \/ \E l \in Loops : LoopRLock(l)

\* The steps of a dispatch that found a handler.
Dispatch ==
    \/ \E l \in Loops, res \in ExecResults : LoopExec(l, res)
    \/ \E l \in Loops : LoopSend(l)

\* The shutdown branch of the run loops.
Shutdown == \E l \in Loops : LoopExit(l)

\* Command registration.
Registration ==
    \/ \E cmd \in Handlers : ProcessLock(cmd)
    \/ Process

\* Connect(), the listener goroutines and the handles' Close().
Handles ==
    \/ Connect
    \/ \E ok \in BOOLEAN : ConnectAuth(ok)
    \/ \E k \in Conns : ListenerSelect(k)
    \/ \E k \in Conns : ListenerExit(k)
    \/ \E k \in Conns : ListenerOwnExit(k)
    \/ \E k \in Conns : ListenerCheck(k)
    \/ \E k \in Conns : ListenerClose(k)
    \/ \E k \in Conns : ListenerDisconnect(k)
    \/ \E k \in Conns : ConnClose(k)
    \/ \E k \in Conns : ConnCloseDo(k)

\* The adapter started and stopped by a host that registers no command: the run
\* loops never find a handler.  (Start and Stop read neither cmds nor ctx.)
NextLifecycle == Lifecycle \/ Supervisor \/ Shutdown
SpecLifecycle == NewInput /\ [][NextLifecycle]_vars

\* The adapter with command registration and dispatch, without Connect().
NextAdapter == Lifecycle \/ Supervisor \/ Shutdown \/ Dispatch \/ Registration
SpecAdapter == NewInput /\ [][NextAdapter]_vars

\* One managed session that is never stopped: registration and dispatch.
NextSession ==
    \/ \E d \in DebugFlags, t \in Tokens : Init(d, t)
    \/ Start
    \/ \E ok \in BOOLEAN : StartAuth(ok)
    \/ Supervisor
    \/ Dispatch
    \/ Registration
SpecSession == NewInput /\ [][NextSession]_vars

\* One managed session that is never stopped and receives message events of many
\* texts, in a shared and in a direct channel.
NextMessages ==
    \/ \E d \in DebugFlags, t \in Tokens : Init(d, t)
    \/ Start
    \/ \E ok \in BOOLEAN : StartAuth(ok)
    \/ \E l \in Loops, r \in GetUsersResults : LoopNames(l, r)
    \/ \E l \in Loops : LoopSelect(l)
    \/ \E l \in Loops, r \in GetUsersResults : LoopTick(l, r)
    \/ \E l \in Loops, e \in Messages : LoopEvent(l, e)
    \/ \E l \in Loops : LoopRLock(l)
    \/ Dispatch
    \/ Registration
SpecMessages == NewInput /\ [][NextMessages]_vars

\* One managed session that is never stopped, with the remote service's events
\* queueing up in rtm.IncomingEvents while the run loop is busy.
NextInbound ==
    \/ \E d \in DebugFlags, t \in Tokens : Init(d, t)
    \/ Start
    \/ \E ok \in BOOLEAN : StartAuth(ok)
    \/ \E l \in Loops, e \in Backlog : Arrive(l, e)
    \/ Supervisor
    \/ Dispatch
    \/ Registration
SpecInbound == NewInput /\ [][NextInbound]_vars

\* The adapter with Connect() and its handles; the run loops, which write none of
\* the variables a handle reads, do not step.
NextConnect == Lifecycle \/ Handles
SpecConnect == NewInput /\ [][NextConnect]_vars

\* The run loops are goroutines the Go scheduler runs fairly; a select with several
\* ready cases picks one at random, so a case that is ready again and again is
\* taken in the end.  Calls of the host and arrivals from the remote service are
\* under no obligation.
LoopFairness ==
    \A l \in Loops :
        /\ WF_vars(\E r \in GetUsersResults : LoopNames(l, r))
        /\ WF_vars(LoopSelect(l))
        /\ WF_vars(LoopRLock(l))
        /\ SF_vars(LoopExit(l))
FairLifecycle == SpecLifecycle /\ LoopFairness

\* The listener goroutines are scheduled fairly as well: a listener that can take
\* a step of its own takes it in the end.  A closed channel stays closed, so a
\* ready case of the listener's select stays ready until the select has chosen.
ListenerFairness ==
    \A k \in Conns :
        /\ WF_vars(ListenerSelect(k))
        /\ WF_vars(ListenerExit(k))
        /\ WF_vars(ListenerOwnExit(k))
        /\ WF_vars(ListenerCheck(k))
        /\ WF_vars(ListenerClose(k))
        /\ WF_vars(ListenerDisconnect(k))
FairConnect == SpecConnect /\ ListenerFairness

\* --------------------------------------------------------------------- claims

Live(l) == pc[l] \notin {"none", "done"}
Launched(l) == pc[l] # "none"
otherVars == <<registryVars, loopVars, connVars, panic>>

\* C1: at any time at most one run loop launched by Start() is live, also when
\* Stop() is followed by Start() before the previous loop has taken its shutdown
\* branch.
C1_AtMostOneLiveLoop == Cardinality({l \in Loops : Live(l)}) <= 1

\* C2: Start() on a running adapter returns nil and changes nothing (it does not
\* take the mutex into AuthTest, replace the exit channel or launch a loop); the
\* Start() calls made with no Stop() in between launch one loop in all: of the
\* launched loops only the newest can have an open exit channel, and a running
\* adapter has exactly that loop.
C2_StartIdempotent ==
    /\ [][(Start /\ running /\ Len(token) # 0)
            => (ret' = Ret("Start", 236, NoErr) /\ UNCHANGED <<adapterVars, otherVars>>)]_vars
    /\ [](Cardinality({l \in Loops : Launched(l) /\ l \notin closed}) <= 1)
    /\ [](running => Cardinality({l \in Loops : Launched(l) /\ l \notin closed}) = 1)

\* C2's case: Start() has returned at its running check, with the loop of the
\* earlier Start() launched.
C2_Witness == ret = Ret("Start", 236, NoErr) /\ running /\ Launched(exit)

\* C3: Stop() never closes a closed or nil exit channel (which would panic), never
\* returns an error, and changes nothing on an adapter that is not running.
C3_StopIdempotent ==
    /\ [](panic.by # "Stop")
    /\ [](ret.op = "Stop" => ret.err = NoErr)
    /\ [][(Stop /\ ~running)
            => (ret' = Ret("Stop", 261, NoErr) /\ UNCHANGED <<adapterVars, otherVars>>)]_vars

\* C3's case: Stop() has returned at its running check on an adapter that was
\* started and stopped before.
C3_Witness == ret = Ret("Stop", 261, NoErr) /\ exit > 0 /\ exit \in closed /\ ~running

\* C4: once Stop() has closed the exit channel of a session, its run loop takes no
\* further inbound event from its select into exec().
C4_NoDispatchAfterStop ==
    [][\A l \in Loops : (l \in closed /\ pc[l] = "wait") => pc'[l] # "rlock"]_vars

\* C5: after Stop() has closed the exit channel made by a Start(), the run loop
\* that Start() launched eventually returns, whatever calls follow.
C5_StoppedLoopReturns == \A l \in Loops : (l \in closed) ~> (pc[l] = "done")

\* C6: the exit channel of a Connect()-issued handle is closed at most once: neither
\* the listener nor the handle's own Close() closes it when it is closed already.
C6_HandleExitClosedOnce == panic.by \notin {"listener", "Close"}

\* C7: an event whose sender is the adapter's own user ID never reaches a handler
\* and is never replied to.
C7_SelfNeverDispatched ==
    \A l \in Loops : pc[l] \in {"exec", "send"} => cur[l].ev.User # auth.UserID

\* C8: a refresh whose GetUsers() fails leaves the names map as it was.
C8_FailedRefreshKeepsNames ==
    [][\A l \in Loops, r \in GetUsersResults :
          (LoopTick(l, r) /\ r.err) => names'[l] = names[l]]_vars

\* C9: while a dispatch is inside cmd.Exec or rtm.SendMessage, a Process() call that
\* awaits the registry's write lock can go on, and so can a Stop() call.
C9_CallersNotBlocked ==
    (\E l \in Loops : pc[l] \in {"exec", "send"})
        => /\ (ctxW # NoHandler => ENABLED Process)
           /\ (mu = "free" => ENABLED Stop)

\* C10: Process() of a handler whose name is registered returns an error and leaves
\* cmds as it was; no entry of cmds is ever removed or replaced, each entry is
\* keyed by its handler's name, and no name has two entries.
C10_RegistryKeepsFirst ==
    /\ [][(Process /\ Has(cmds, Name(ctxW)))
            => (cmds' = cmds /\ ret'.op = "Process" /\ ret'.err # NoErr)]_vars
    /\ [][cmds \subseteq cmds']_vars
    /\ [](\A e \in cmds : e[1] = Name(e[2]))
    /\ [](\A e1 \in cmds, e2 \in cmds : e1[1] = e2[1] => e1 = e2)

\* C10's case: a Process() has returned at its duplicate check while the name is
\* bound to the handler registered first.
C10_Witness ==
    /\ ret.op = "Process"
    /\ ret.line = 220
    /\ Has(cmds, s_deploy)

\* C11: Connect() on an adapter that is not running returns the error "not running"
\* and changes nothing: it does not go on to AuthTest (a Connect() holds the mutex
\* into AuthTest only on a running adapter), and no handle, session or listener
\* comes to exist while the adapter is not running.
C11_ConnectNotRunning ==
    /\ [][(Connect /\ ~running)
            => (ret' = Ret("Connect", 179, "not running")
                /\ UNCHANGED <<adapterVars, otherVars>>)]_vars
    /\ [](mu = "Connect" => running)
    /\ [][\A k \in Conns : (cpc[k] = "none" /\ cpc'[k] # "none") => running]_vars

\* C11's case: Connect() has returned "not running" on an adapter that was started
\* and stopped, with no handle made.
C11_Witness ==
    /\ ret = Ret("Connect", 179, "not running")
    /\ exit \in closed
    /\ ~running
    /\ \A k \in Conns : cpc[k] = "none"

\* C12: within one session the run loop takes the buffered events oldest first,
\* one at a time: the buffer grows at its end and shrinks at its front only, an
\* event is taken only by a loop that waits in its select with no event in hand
\* (a loop that returns leaves what is buffered behind),
\* the event in hand stays the same until its dispatch (cmd.Exec, then
\* rtm.SendMessage) is over, and the dispatch steps follow one another.
C12_InOrderOneAtATime ==
    /\ [][\A l \in Loops :
            \/ incoming'[l] = incoming[l]
            \/ \E e \in Backlog : incoming'[l] = Append(incoming[l], e)
            \/ /\ incoming[l] # <<>>
               /\ pc[l] = "wait"
               /\ cur[l] = NoCur
               /\ incoming'[l] = Tail(incoming[l])
               /\ cur'[l] # NoCur => cur'[l].ev = Head(incoming[l])
            \/ /\ pc[l] = "wait"
               /\ pc'[l] = "done"
               /\ incoming'[l] = <<>>]_vars
    /\ [][\A l \in Loops :
            (cur[l] # NoCur /\ cur'[l] # NoCur) => cur'[l].ev = cur[l].ev]_vars
    /\ [][\A l \in Loops :
            /\ pc[l] = "rlock" => pc'[l] \in {"rlock", "exec", "top"}
            /\ pc[l] = "exec" => pc'[l] \in {"exec", "send"}
            /\ pc[l] = "send" => pc'[l] \in {"send", "top"}]_vars
    /\ [](\A l \in Loops : pc[l] \in {"rlock", "exec", "send"} <=> cur[l] # NoCur)

\* C12's case: a reply is being sent while two different events wait in the buffer.
C12_Witness ==
    \E l \in Loops :
        /\ pc[l] = "send"
        /\ Len(incoming[l]) = 2
        /\ incoming[l][1] # incoming[l][2]
        /\ Accepts(incoming[l][1], auth)
        /\ Accepts(incoming[l][2], auth)

\* C13: an event of a direct channel that process() hands to exec() has the full
\* split of its text as arguments, whatever the text begins with.
C13_DirectKeepsAllTokens ==
    \A l \in Loops :
        (cur[l] # NoCur /\ HasPrefix(cur[l].ev.Channel, <<"D">>))
            => cur[l].args = Split(cur[l].ev.Text)

\* The arguments are the tokens of the text after the first, in order.
DropsFirstToken(args, text) ==
    /\ Len(args) = Len(Split(text)) - 1
    /\ \A i \in 1..Len(args) : args[i] = Split(text)[i + 1]

\* Identities AuthTest() may confirm: the model's, and one whose handle is the
\* mention of its own ID, so that a text can begin with both prefix forms.
Identities == {auth, [User |-> Mention(s_UBOT), UserID |-> s_UBOT]}

\* C14: an event process() hands to exec() whose text begins with the handle or
\* with the mention has as arguments the split of its text less exactly the first
\* token; so has every accepted message of every identity, also when the text
\* begins with both forms or its first token only starts with the handle.
C14_StripsFirstTokenOnce ==
    /\ \A l \in Loops :
          (cur[l] # NoCur /\ Mentions(cur[l].ev, auth))
              => DropsFirstToken(cur[l].args, cur[l].ev.Text)
    /\ \A a \in Identities, ev \in Messages :
          (Accepts(ev, a) /\ Mentions(ev, a)) => DropsFirstToken(Args(ev, a), ev.Text)

\* C14's case: a direct-channel event whose first token only starts with the handle
\* has reached its handler with that token removed.
C14_Witness ==
    \E l \in Loops :
        /\ pc[l] = "exec"
        /\ cur[l].ev.Text = s_botty \o s_sp \o s_deploy
        /\ cur[l].ev.Channel = s_D001
        /\ cur[l].args = <<s_deploy>>

\* The event of the example: "@bot deploy staging" from U123 in C999.
Example == Msg(s_message, s_U123, s_C999, s_atbot \o s_sp \o s_deploy \o s_sp \o s_staging)

\* C15: with U123 cached as "alice" and a handler deploy registered, the run loop
\* takes the example event into exec() with the arguments deploy and staging, and
\* when the handler returns ("ok", nil) the message sent is "@alice: ok" to "C999".
C15_ExampleReply ==
    [][\A l \in Loops :
         /\ (LoopEvent(l, Example)
                /\ Get(names[l], s_U123, s_empty) = s_alice
                /\ Has(cmds, s_deploy))
              => (pc'[l] = "rlock" /\ cur'[l].args = <<s_deploy, s_staging>>)
         /\ (LoopExec(l, [rsp |-> s_ok, err |-> NoErr]) /\ cur[l].ev = Example)
              => out'[l] = [text |-> <<"@", "a", "l", "i", "c", "e", ":", " ", "o", "k">>,
                            channel |-> s_C999]]_vars

\* C16: when the handler found returns no error, the message handed to
\* rtm.SendMessage goes to the event's channel and is "@<name>: <output>" if the
\* sender's name is not empty and the channel is not direct, else the output alone.
C16_SuccessReply ==
    [][\A l \in Loops, res \in ExecResults :
         (LoopExec(l, res) /\ res.err = NoErr)
           => /\ out'[l].channel = cur[l].ev.Channel
              /\ out'[l].text =
                    IF cur[l].name # s_empty /\ cur[l].ev.Channel[1] # "D"
                    THEN <<"@">> \o cur[l].name \o <<":", " ">> \o res.rsp
                    ELSE res.rsp]_vars

\* C16's case: the bare output is being sent to a direct channel, to a sender whose
\* name is known.
C16_Witness ==
    \E l \in Loops :
        /\ pc[l] = "send"
        /\ cur[l].name = s_alice
        /\ cur[l].ev.Channel = s_D001
        /\ out[l] = [text |-> s_ok, channel |-> s_D001]

\* C17: when the handler found returns an error, one message is handed to
\* rtm.SendMessage, to the event's channel, with the text "@<name>: error executing
\* command: <error>"; once it is sent the loop is back at the top of its for loop
\* with its session connected, no public method's return, the running flag or the
\* process has been touched, and from there the loop enters its select again.
C17_ErrorReply ==
    /\ [][\A l \in Loops, res \in ExecResults :
            (LoopExec(l, res) /\ res.err # NoErr)
              => /\ pc'[l] = "send"
                 /\ out'[l].channel = cur[l].ev.Channel
                 /\ out'[l].text =
                       <<"@">> \o cur[l].name
                         \o <<":", " ", "e", "r", "r", "o", "r", " ", "e", "x", "e", "c", "u",
                              "t", "i", "n", "g", " ", "c", "o", "m", "m", "a", "n", "d", ":",
                              " ">>
                         \o res.err
                 /\ UNCHANGED <<ret, running, panic, rtm>>]_vars
    /\ [][\A l \in Loops :
            (pc[l] = "send" /\ pc'[l] # "send")
              => /\ pc'[l] = "top"
                 /\ out'[l] = NoOut
                 /\ rtm'[l]
                 /\ UNCHANGED <<ret, running, panic>>]_vars
    /\ [][\A l \in Loops : (pc[l] # "exec" /\ pc'[l] = "send") => pc[l] = "send"]_vars
    /\ [](\A l \in Loops : pc[l] = "top" => ENABLED LoopSelect(l))
    /\ [](\A l \in Loops : pc[l] = "wait" => \A e \in Messages : ENABLED LoopEvent(l, e))

\* C17's case: the error reply is being sent to a shared channel.
C17_Witness ==
    \E l \in Loops :
        /\ pc[l] = "send"
        /\ out[l] = [text |-> ErrorText(s_alice, s_boom), channel |-> s_C999]

\* C18: while neither Start() nor Stop() is inside its critical section, running
\* holds exactly when p.exit is a channel that is open (so a stopped adapter's
\* p.exit is nil or closed); a Start() that authenticates makes p.exit a channel
\* that did not exist before and is open; a Stop() on a running adapter closes the
\* channel p.exit names, and no other, and leaves p.exit naming it.
C18_RunningIffExitOpen ==
    /\ [](mu # "Start" => (running <=> (exit # 0 /\ exit \notin closed)))
    /\ [](mu # "Start" => (~running => (exit = 0 \/ exit \in closed)))
    /\ [][StartAuth(TRUE)
            => /\ exit' > exit
               /\ \A l \in Loops : sel[l] # exit'
               /\ exit' \notin closed'
               /\ closed' = closed
               /\ running']_vars
    /\ [][(Stop /\ running)
            => /\ exit \notin closed
               /\ closed' = closed \cup {exit}
               /\ exit' = exit
               /\ ~running']_vars
    /\ [][closed' # closed => (Stop /\ running)]_vars

\* C18's case: the adapter was started, stopped and started again, and no call is
\* in its critical section: the first channel is closed, p.exit is the second.
C18_Witness ==
    /\ mu = "free"
    /\ running
    /\ exit = 2
    /\ closed = {1}

\* C19: for every handle Connect() has returned, once the adapter is stopped or
\* the handle's exit channel is closed, the listener calls rtm.Disconnect() on the
\* handle's session in the end (a process ended by a panic has no session left).
C19_ListenerDisconnects ==
    \A k \in Conns :
        (cpc[k] # "none" /\ (~running \/ cexit[k] = "closed")) ~> (~crtm[k] \/ ~Alive)

\* Run loop l has returned on an invalid-auth event: its exit channel is not closed.
AuthFailed(l) == pc[l] = "done" /\ l \notin closed

\* C20: an invalid-auth event makes the run loop return and leaves running, p.exit
\* and the channels as they are; while a returned loop's exit channel is open the
\* adapter is still running with that channel as p.exit; a Start() then returns
\* nil at its running check and changes nothing; and a run loop is launched only
\* by a Start() that authenticates, when every channel made before has been closed
\* by Stop().
C20_AuthFailureKeepsRunning ==
    /\ [][\A l \in Loops :
            (LoopEvent(l, InvalidAuthEvent) /\ l \notin closed)
              => (AuthFailed(l)' /\ UNCHANGED <<running, exit, closed, mu, ret>>)]_vars
    /\ [](\A l \in Loops :
            AuthFailed(l) => (exit = l /\ (mu # "Start" => running)))
    /\ [][(Start /\ Len(token) # 0 /\ exit # 0 /\ AuthFailed(exit))
            => (ret' = Ret("Start", 236, NoErr) /\ UNCHANGED <<adapterVars, otherVars>>)]_vars
    /\ [][\A l \in Loops :
            (~Launched(l) /\ Launched(l)')
              => (mu = "Start" /\ \A j \in Loops : Launched(j) => j \in closed)]_vars

\* C20's case: the loop of the only session has returned on an invalid-auth event,
\* and a Start() has returned at its running check.
C20_Witness ==
    /\ exit = 1
    /\ AuthFailed(1)
    /\ running
    /\ ret = Ret("Start", 236, NoErr)

====
